---- MODULE Spec2Model ----
(***************************************************************************)
(* Model of the video processing pipeline of cnvrtr:                       *)
(*   - the task store            (src/lib/stores/video.ts)                 *)
(*   - the orchestrator          (src/lib/services/videoProcessing.ts,     *)
(*                                the revision with TinyURL, local staging *)
(*                                and cancelProcessing, lines 238-572)     *)
(*   - the compression engine    (src/lib/utils/ffmpeg.ts)                 *)
(*   - the link shortener client (the proxy-first revision of tinyurl.ts)  *)
(* Spec is the orchestrator with the store; in it a call of the engine or  *)
(* of the Drive client is seen by its outcome.  SpecEngine is the          *)
(* VideoProcessor from inside, with the virtual filesystem of the FFmpeg   *)
(* instance; SpecDrive is one upload of processVideo from inside           *)
(* (src/lib/utils/googleDrive.ts), with its HTTP requests, and SpecLive is  *)
(* that upload and the rest of the task when every external call settles.  *)
(* SpecValidate is validateFile of the service under any call, SpecPage    *)
(* the way of a file from the uploader component to processVideo, and      *)
(* SpecShorten the POST handler of routes/api/shorten/+server.ts.          *)
(*                                                                         *)
(* Every asynchronous function is cut at its awaits: one action is the     *)
(* synchronous code that runs when the awaited call settles, up to the     *)
(* next await.  External calls settle with a nondeterministic outcome.     *)
(*                                                                         *)
(* Progress values are fixed-point numbers in hundredths of a percent, so  *)
(* that 5 + p * 0.65 is exact: Pct(5) + 65 * p.                            *)
(***************************************************************************)
EXTENDS Integers, Sequences, FiniteSets, TLC

VARIABLES
  isProcessing,        \* VideoProcessingService.isProcessing
  abortController,     \* VideoProcessingService.abortController: {} for null, else {id of the invocation that created it}
  aborted,             \* the AbortControllers whose abort() has been called
  userDirectoryHandle, \* VideoProcessingService.userDirectoryHandle is set
  processingQueue,     \* the processingQueue store: a sequence of task records
  inv,                 \* the accepted processVideo invocations: locals and position of each
  isLoaded,            \* VideoProcessor.isLoaded
  listeners,           \* the 'progress' listeners registered on the FFmpeg instance by compressVideo
  lastCall,            \* how the most recent processVideo call was answered
  cancels,             \* number of effective cancelProcessing calls so far
  fsSupported,         \* isFileSystemAccessSupported() of this browser
  vfs,                 \* the names of the files in the virtual filesystem of the FFmpeg instance
  call,                \* the VideoProcessor call in flight: its locals and its position
  calls,               \* number of VideoProcessor calls made so far
  loadedOnce,          \* some this.ffmpeg.load() has succeeded
  reloaded,            \* this.ffmpeg.load() was invoked again after one had succeeded
  delivered,           \* the values compressVideo has passed to its onProgress callback
  upload,              \* the googleDriveService.uploadFile call in flight: its locals and its position
  uploads,             \* number of uploadFile calls made so far
  validation,          \* the last call of VideoProcessingService.validateFile: its argument and its result
  selectedFile,        \* VideoUploader.svelte: selectedFile
  uploaderErrorMessage, \* VideoUploader.svelte: errorMessage
  pageIsProcessing,    \* +page.svelte: isProcessing
  handler              \* the POST /api/shorten request being handled: its locals and its position

\* the state of the VideoProcessor seen from inside (utils/ffmpeg.ts)
engineVars == <<vfs, call, calls, loadedOnce, reloaded, delivered>>

\* the state of one upload seen from inside (utils/googleDrive.ts)
driveVars == <<upload, uploads>>

\* what lies around the pipeline: the validation, the uploader component with the page
\* that hosts it, the shortening endpoint
peripheryVars == <<validation, selectedFile, uploaderErrorMessage, pageIsProcessing, handler>>

vars == <<isProcessing, abortController, aborted, userDirectoryHandle, processingQueue,
          inv, isLoaded, listeners, lastCall, cancels, fsSupported, engineVars, driveVars,
          peripheryVars>>

(***************************************************************************)
(* Bounds                                                                  *)
(***************************************************************************)
MaxTasks == 2
MaxCancels == 1
MaxCalls == 3
MaxChunks == 7
MaxSent == 10
MaxUploads == 2

NoError == "none"
NoUrl == "null"
NoStatus == "undefined"

Formats == {"webm", "mp4"}

\* A JavaScript number: a finite value v, or NaN, Infinity, -Infinity
Num(v) == [kind |-> "finite", v |-> v]

NaN == [kind |-> "NaN", v |-> 0]

PosInfinity == [kind |-> "Infinity", v |-> 0]

NegInfinity == [kind |-> "-Infinity", v |-> 0]

\* event.progress * 100 for the progress events the encoder may emit:
\* -0.5, 0.4 and 2.5 times 100, and the non-finite values
RawProgress == {NaN, PosInfinity, NegInfinity, Num(-50), Num(40), Num(250)}

ProcessingOptions == [enableGoogleDrive : BOOLEAN, enableTinyUrl : BOOLEAN, preferredFormat : Formats]

Pct(n) == n * 100

\* A File: its name as a sequence of characters, its size in bytes, its MIME type
NoFile == [name |-> <<>>, size |-> 0, type |-> ""]

\* a 10 MiB MP4 video, the file of the tasks when the file does not matter
SampleFile == [name |-> <<"c", "l", "i", "p", ".", "m", "p", "4">>, size |-> 10 * 1024 * 1024, type |-> "video/mp4"]

\* no call of validateFile has been made
NoValidation == [called |-> FALSE, file |-> NoFile, isValid |-> FALSE, errors |-> <<>>]

\* the string | null of the uploader's validateFile, and its errorMessage ('' at first)
NoMessage == [rule |-> "none", maximum |-> 0]

\* JSON values and JavaScript strings of the shortening endpoint: undefined, or a
\* string as its sequence of characters
Undefined == [kind |-> "undefined", text |-> <<>>]

Str(text) == [kind |-> "string", text |-> text]

\* the body of a request: whether it parses as JSON, and its url and alias members
NoBody == [parses |-> FALSE, url |-> Undefined, alias |-> Undefined]

\* what the provider did with the upstream request: threw is a rejected fetch or a
\* rejected read of the body, ok is Response.ok, shortUrl is the short URL it issued
NoAnswer == [threw |-> FALSE, ok |-> FALSE, shortUrl |-> Undefined]

\* the Response of the handler: its status, its Content-Type, the members of its body
NoHttpResponse ==
  [status |-> 0, contentType |-> "none", error |-> FALSE,
   shortUrl |-> Undefined, longUrl |-> Undefined, alias |-> Undefined]

\* no request to POST /api/shorten is being handled
NoHandler ==
  [pc |-> "idle", body |-> NoBody, longUrl |-> Undefined, alias |-> Undefined,
   endpoint |-> "none", fetches |-> 0, res |-> "none", answer |-> NoAnswer, threw |-> FALSE,
   response |-> NoHttpResponse]

(***************************************************************************)
(* stores/video.ts                                                         *)
(***************************************************************************)
addToQueue(queue, file) ==
  Append(queue, [id |-> Len(queue) + 1, file |-> file, status |-> "pending", progress |-> 0,
                 error |-> NoError, shareUrl |-> NoUrl])

updateTaskProgress(queue, taskId, progress, status) ==
  [i \in DOMAIN queue |->
     IF queue[i].id = taskId
       THEN [queue[i] EXCEPT !.progress = progress,
                             !.status = IF status # NoStatus THEN status ELSE @]
       ELSE queue[i]]

completeTask(queue, taskId, shareUrl) ==
  [i \in DOMAIN queue |->
     IF queue[i].id = taskId
       THEN [queue[i] EXCEPT !.shareUrl = shareUrl, !.status = "completed", !.progress = Pct(100)]
       ELSE queue[i]]

failTask(queue, taskId, errorMessage) ==
  [i \in DOMAIN queue |->
     IF queue[i].id = taskId
       THEN [queue[i] EXCEPT !.status = "error",
                             !.error = IF errorMessage # NoError THEN errorMessage ELSE @]
       ELSE queue[i]]

(***************************************************************************)
(* utils/ffmpeg.ts: pure helpers                                           *)
(***************************************************************************)
Min(a, b) == IF a < b THEN a ELSE b

Max(a, b) == IF a > b THEN a ELSE b

\* a variant of clampProgress that only replaces the non-finite values
clampProgressFiniteOnly(value) ==
  IF value.kind # "finite" THEN 0 ELSE value.v

\* a variant of clampProgress without the upper limit
clampProgressLowerOnly(value) ==
  IF value.kind # "finite" THEN 0 ELSE Max(0, value.v)

\* Number.isNaN(value) || !Number.isFinite(value) ? 0 : max(0, min(100, value))
clampProgress(value) ==
  IF value.kind = "NaN" \/ value.kind # "finite" THEN 0 ELSE Max(0, Min(100, value.v))

\* the branch of compressVideo taken for preferredFormat: the encoder tried first
FirstEncoder(preferredFormat) ==
  IF preferredFormat = "webm" THEN "webm" ELSE "mp4"

\* a variant of the nested try that runs the same encoder again
SameEncoderAgain(preferredFormat) ==
  FirstEncoder(preferredFormat)

\* the encoder of the nested try of that branch
FallbackEncoder(preferredFormat) ==
  IF preferredFormat = "webm" THEN "mp4" ELSE "webm"

(***************************************************************************)
(* tinyurl.ts (proxy-first revision): the requests of shortenUrl           *)
(***************************************************************************)
ProxyRequest == "POST /api/shorten"

\* line 41: with an API key the v2 API is called, without one the simple endpoint
DirectRequest(hasApiKey) ==
  IF hasApiKey THEN "POST https://api.tinyurl.com/create"
               ELSE "GET https://tinyurl.com/api-create.php"

\* a variant of shortenUrl that calls the provider without trying the proxy
shortenUrlDirectFirst(r) ==
  [r EXCEPT !.requests = <<DirectRequest(FALSE)>>, !.pc = "shortenDirect"]

\* lines 21-28: shortenUrl up to its first await
shortenUrl(r) ==
  [r EXCEPT !.requests = <<ProxyRequest>>, !.pc = "shortenProxy"]

\* lines 37-54 and 75-83: the proxy did not give a short URL
shortenUrlAfterProxy(r, hasApiKey) ==
  [r EXCEPT !.requests = Append(@, DirectRequest(hasApiKey)), !.pc = "shortenDirect"]

(***************************************************************************)
(* services/videoProcessing.ts: the synchronous stretches of processVideo. *)
(* Each takes the locals r of one invocation and the queue q, and gives    *)
(* the locals and the queue at the next await (or at the end of the        *)
(* invocation).                                                            *)
(***************************************************************************)
NewInvocation(id, options) ==
  [id |-> id, pc |-> "start", options |-> options, result |-> "pending",
   normalized |-> FALSE, encoders |-> <<>>, compressed |-> "none",
   compressError |-> NoError, staged |-> FALSE, saved |-> FALSE, driveFile |-> FALSE,
   uploadFailed |-> FALSE, shareUrl |-> NoUrl,
   requests |-> <<>>, shortened |-> "none",
   uploads |-> 0, shortenings |-> 0]

At(r, q, pc) == [r |-> [r EXCEPT !.pc = pc], q |-> q]

DefaultOptions == [enableGoogleDrive |-> TRUE, enableTinyUrl |-> TRUE, preferredFormat |-> "mp4"]

\* The locals of a settled invocation are gone: what is kept of it is how it ended
Settled(r) ==
  [NewInvocation(r.id, DefaultOptions) EXCEPT
     !.pc = "done", !.result = r.result, !.compressError = r.compressError,
     !.uploadFailed = r.uploadFailed, !.driveFile = r.driveFile, !.shortened = r.shortened]

\* The locals of compressVideo are gone once it has returned or thrown, and so is its
\* argument preferredFormat, which nothing reads again; of the file it returned
\* processVideo uses the name and the size, never the format
EngineReturned(r) ==
  [r EXCEPT !.normalized = FALSE, !.encoders = <<>>,
            !.options.preferredFormat = DefaultOptions.preferredFormat,
            !.compressed = IF r.compressError = NoError THEN "file" ELSE "none"]

\* lines 369-391: completeTask and the resolved promise
Complete(r, q) ==
  [r |-> [r EXCEPT !.pc = "done", !.result = "resolved"],
   q |-> completeTask(q, r.id, r.shareUrl)]

\* lines 393-399: the catch block of processVideo
Catch(r, q, message) ==
  [r |-> [r EXCEPT !.pc = "done", !.result = "rejected"],
   q |-> failTask(updateTaskProgress(q, r.id, Pct(0), "error"), r.id, message)]

\* a variant of the cleanup that deletes the staged copy whether or not the upload succeeded
CleanupSavedCopyAlways(r, q) ==
  IF r.saved /\ userDirectoryHandle
    THEN At(r, q, "deleteSaved")
    ELSE Complete(r, q)

\* lines 360-367: delete the staged copy when the upload succeeded
CleanupSavedCopy(r, q) ==
  IF r.driveFile /\ r.saved /\ userDirectoryHandle
    THEN At(r, q, "deleteSaved")
    ELSE Complete(r, q)

\* lines 342-358: link shortening
ShortenStage(r, q) ==
  IF r.options.enableTinyUrl /\ r.driveFile
    THEN [r |-> shortenUrl([r EXCEPT !.shortenings = @ + 1]),
          q |-> updateTaskProgress(q, r.id, Pct(90), "processing")]
    ELSE IF r.driveFile
      THEN CleanupSavedCopy([r EXCEPT !.shareUrl = "webViewLink"],
                            updateTaskProgress(q, r.id, Pct(100), "processing"))
      ELSE CleanupSavedCopy(r, q)

\* lines 328-334: start of the upload stage
UploadStage(r, q) ==
  IF r.options.enableGoogleDrive
    THEN At([r EXCEPT !.uploads = @ + 1],
            updateTaskProgress(q, r.id, Pct(70), "processing"),
            IF r.saved THEN "readBack" ELSE "uploadAuth")
    ELSE ShortenStage(r, q)

\* line 335: the upload returned the Drive file
UploadSucceeded(r, q) ==
  ShortenStage([r EXCEPT !.driveFile = TRUE],
               updateTaskProgress(q, r.id, Pct(90), "processing"))

\* a variant of the upload stage without its catch: the failure reaches the outer catch
UploadFailureFatal(r, q) ==
  Catch([r EXCEPT !.uploadFailed = TRUE], q, "Failed to upload to Google Drive")

\* lines 336-339: the catch of the upload stage
UploadFailed(r, q) ==
  ShortenStage([r EXCEPT !.uploadFailed = TRUE], q)

\* lines 347-349: the shortener returned a short URL
ShortenSucceeded(r, q) ==
  CleanupSavedCopy([r EXCEPT !.shortened = "shortUrl", !.shareUrl = "shortUrl"],
                   updateTaskProgress(q, r.id, Pct(100), "processing"))

\* a variant of the catch of the shortening stage that attempts the shortening once more
ShortenFailedRetries(r, q) ==
  IF r.shortenings < 2
    THEN ShortenStage(r, q)
    ELSE CleanupSavedCopy([r EXCEPT !.shortened = "threw",
                                    !.shareUrl = IF r.driveFile THEN "webViewLink" ELSE NoUrl],
                          q)

\* lines 350-354: the catch of the shortening stage
ShortenFailed(r, q) ==
  CleanupSavedCopy([r EXCEPT !.shortened = "threw",
                             !.shareUrl = IF r.driveFile THEN "webViewLink" ELSE NoUrl],
                   q)

\* lines 320-322: progress 68 and saveFileToDirectory
SaveStage(r, q) ==
  At([r EXCEPT !.staged = TRUE], updateTaskProgress(q, r.id, Pct(68), "processing"), "save")

\* lines 313-319: local staging, asking for a directory first when none is held
StagingStage(r, q) ==
  IF fsSupported
    THEN IF ~userDirectoryHandle THEN At([r EXCEPT !.staged = TRUE], q, "pickDirectory")
                                 ELSE SaveStage(r, q)
    ELSE UploadStage(r, q)

\* a variant in which a failed compression is swallowed and the pipeline goes on
CompressionFailureIgnored(r, q) ==
  StagingStage(r, q)

\* lines 414-435: compressVideo of the service rethrows every failure of the engine,
\* and the catch of processVideo fails the task
CompressionFailed(r, q) ==
  Catch(r, q, r.compressError)

\* lines 307-313: compressVideo returned or threw
AfterCompression(r, q) ==
  IF r.compressError # NoError
    THEN CompressionFailed(r, q)
    ELSE StagingStage(r, q)

\* lines 303-311 and ffmpeg.ts 107-113: progress 5, then compressVideo up to its first await
StartCompression(r, q) ==
  At(r, updateTaskProgress(q, r.id, Pct(5), "processing"),
     IF ~isLoaded THEN "load" ELSE "writeInput")

\* lines 288-301: status processing, then the pre-authentication when Drive upload is on
StartTask(r, q) ==
  IF r.options.enableGoogleDrive
    THEN At(r, updateTaskProgress(q, r.id, Pct(0), "processing"), "preAuth")
    ELSE StartCompression(r, updateTaskProgress(q, r.id, Pct(0), "processing"))

\* a variant of the onProgress callback that passes the engine's percentage on unscaled
mappedProgressUnscaled(progress) == Pct(progress)

\* line 309: the progress of the engine mapped into the range 5-70
mappedProgress(progress) == Pct(5) + progress * 65

\* ffmpeg.ts 136-140 with videoProcessing.ts 307-311: every listener registered so far
\* runs on a progress event and updates the task of the call that registered it
RECURSIVE EmitProgress(_, _, _)
EmitProgress(ls, q, value) ==
  IF ls = <<>> THEN q
  ELSE EmitProgress(Tail(ls),
                    updateTaskProgress(q, Head(ls), mappedProgress(clampProgress(value)), "processing"),
                    value)

(***************************************************************************)
(* Actions                                                                 *)
(***************************************************************************)
Running == {k \in DOMAIN inv : inv[k].result = "pending"}

\* a variant of the end of a step without the finally block: the flag and the
\* controller are cleared only at the end of the try block, when the promise resolves
ContinueWithoutFinally(k, res) ==
  /\ inv' = [inv EXCEPT ![k] = IF res.r.pc = "done" THEN Settled(res.r) ELSE res.r]
  /\ processingQueue' = res.q
  /\ IF res.r.pc = "done" /\ res.r.result = "resolved"
       THEN isProcessing' = FALSE /\ abortController' = {}
       ELSE UNCHANGED <<isProcessing, abortController>>

\* the end of a step of invocation k; the finally block (lines 400-403) when it ended
Continue(k, res) ==
  /\ inv' = [inv EXCEPT ![k] = IF res.r.pc = "done" THEN Settled(res.r) ELSE res.r]
  /\ processingQueue' = res.q
  /\ IF res.r.pc = "done"
       THEN isProcessing' = FALSE /\ abortController' = {}
       ELSE UNCHANGED <<isProcessing, abortController>>

\* processVideo, lines 266-301 (to the first await)
processVideo(file, options) ==
  /\ Len(processingQueue) < MaxTasks
  /\ IF isProcessing
       THEN /\ lastCall' = "AlreadyProcessing"
            /\ UNCHANGED <<isProcessing, abortController, processingQueue, inv>>
       ELSE LET id == Len(processingQueue) + 1
                res == StartTask(NewInvocation(id, options), addToQueue(processingQueue, file))
            IN /\ lastCall' = "accepted"
               /\ isProcessing' = TRUE
               /\ abortController' = {id}
               /\ inv' = Append(inv, res.r)
               /\ processingQueue' = res.q
  /\ UNCHANGED <<aborted, userDirectoryHandle, isLoaded, listeners, cancels, fsSupported,
                 engineVars, driveVars>>

\* a variant of cancelProcessing that aborts the token and leaves the flag set
cancelProcessingKeepsFlag ==
  /\ cancels < MaxCancels
  /\ isProcessing
  /\ aborted' = aborted \cup abortController
  /\ cancels' = cancels + 1
  /\ UNCHANGED <<isProcessing, abortController, userDirectoryHandle, processingQueue, inv,
                 isLoaded, listeners, lastCall, fsSupported, engineVars, driveVars, peripheryVars>>

\* cancelProcessing, lines 559-568; videoProcessor has no cancelCurrentOperation,
\* so that call throws inside its try and nothing is awaited
cancelProcessing ==
  /\ cancels < MaxCancels
  /\ isProcessing
  /\ aborted' = aborted \cup abortController
  /\ isProcessing' = FALSE
  /\ cancels' = cancels + 1
  /\ UNCHANGED <<abortController, userDirectoryHandle, processingQueue, inv, isLoaded,
                 listeners, lastCall, fsSupported,
                 engineVars, driveVars, peripheryVars>>

\* googleDriveService.authenticate() of lines 293-301 settled: either way the task goes on
PreAuthSettled(k) ==
  /\ inv[k].pc = "preAuth"
  /\ Continue(k, StartCompression(inv[k], processingQueue))
  /\ UNCHANGED <<aborted, userDirectoryHandle, isLoaded, listeners, lastCall, cancels, fsSupported,
                 engineVars, driveVars, peripheryVars>>

\* ffmpeg.ts load, lines 28-100
LoadSettled(k) ==
  /\ inv[k].pc = "load"
  /\ \E ok \in BOOLEAN :
       IF ok
         THEN /\ isLoaded' = TRUE
              /\ Continue(k, At(inv[k], processingQueue, "writeInput"))
         ELSE /\ UNCHANGED isLoaded
              /\ Continue(k, AfterCompression(
                      [inv[k] EXCEPT !.compressError = "Video processor initialization failed"],
                      processingQueue))
  /\ UNCHANGED <<aborted, userDirectoryHandle, listeners, lastCall, cancels, fsSupported,
                 engineVars, driveVars, peripheryVars>>

\* ffmpeg.ts lines 124-129: writeFile of the input settled
WriteInputSettled(k) ==
  /\ inv[k].pc = "writeInput"
  /\ \E ok \in BOOLEAN :
       IF ok
         THEN Continue(k, At(inv[k], processingQueue, "normalize"))
         ELSE Continue(k, At([inv[k] EXCEPT !.compressError = "Video compression failed"],
                             processingQueue, "cleanup"))
  /\ UNCHANGED <<aborted, userDirectoryHandle, isLoaded, listeners, lastCall, cancels, fsSupported,
                 engineVars, driveVars, peripheryVars>>

\* ffmpeg.ts lines 128-146/159: normalizeToMP4 settled; the progress listener is
\* registered and the first encoder starts
NormalizeSettled(k) ==
  /\ inv[k].pc = "normalize"
  /\ \E ok \in BOOLEAN :
       Continue(k, At([inv[k] EXCEPT !.normalized = ok,
                                     !.encoders = <<FirstEncoder(inv[k].options.preferredFormat)>>],
                      processingQueue, "encode"))
  /\ listeners' = Append(listeners, inv[k].id)
  /\ UNCHANGED <<aborted, userDirectoryHandle, isLoaded, lastCall, cancels, fsSupported,
                 engineVars, driveVars, peripheryVars>>

\* ffmpeg.ts lines 144-169: compressToWebM / compressToMP4 settled
EncoderSettled(k) ==
  /\ inv[k].pc = "encode"
  /\ \E ok \in BOOLEAN :
       IF ok
         THEN Continue(k, At([inv[k] EXCEPT !.compressed = inv[k].encoders[Len(inv[k].encoders)]],
                             processingQueue, "cleanup"))
         ELSE IF Len(inv[k].encoders) = 1
           THEN Continue(k, At([inv[k] EXCEPT !.encoders =
                                   Append(@, FallbackEncoder(inv[k].options.preferredFormat))],
                               processingQueue, "encode"))
           ELSE Continue(k, At(inv[k], processingQueue, "readNormalized"))
  /\ UNCHANGED <<aborted, userDirectoryHandle, isLoaded, listeners, lastCall, cancels, fsSupported,
                 engineVars, driveVars, peripheryVars>>

\* ffmpeg.ts lines 171-184: both encoders failed, the normalized input is read back
ReadNormalizedSettled(k) ==
  /\ inv[k].pc = "readNormalized"
  /\ \E ok \in BOOLEAN :
       IF ok
         THEN Continue(k, At([inv[k] EXCEPT !.compressed = "normalized"], processingQueue, "cleanup"))
         ELSE Continue(k, At([inv[k] EXCEPT !.compressError = "Video compression failed"],
                             processingQueue, "cleanup"))
  /\ UNCHANGED <<aborted, userDirectoryHandle, isLoaded, listeners, lastCall, cancels, fsSupported,
                 engineVars, driveVars, peripheryVars>>

\* ffmpeg.ts lines 185-191: the finally block of compressVideo settled
CompressCleanupSettled(k) ==
  /\ inv[k].pc = "cleanup"
  /\ Continue(k, AfterCompression(EngineReturned(inv[k]), processingQueue))
  /\ UNCHANGED <<aborted, userDirectoryHandle, isLoaded, listeners, lastCall, cancels, fsSupported,
                 engineVars, driveVars, peripheryVars>>

\* a 'progress' event of the FFmpeg instance while one of its exec calls runs
ProgressEvent(value) ==
  /\ \E k \in DOMAIN inv : inv[k].pc \in {"normalize", "encode"}
  /\ processingQueue' = EmitProgress(listeners, processingQueue, value)
  /\ UNCHANGED <<isProcessing, abortController, aborted, userDirectoryHandle, inv, isLoaded,
                 listeners, lastCall, cancels, fsSupported,
                 engineVars, driveVars, peripheryVars>>

\* fileSystem.ts pickDirectory, lines 20-25
PickDirectorySettled(k) ==
  /\ inv[k].pc = "pickDirectory"
  /\ \E ok \in BOOLEAN :
       IF ok
         THEN /\ userDirectoryHandle' = TRUE
              /\ Continue(k, SaveStage(inv[k], processingQueue))
         ELSE /\ UNCHANGED userDirectoryHandle
              /\ Continue(k, UploadStage(inv[k], processingQueue))
  /\ UNCHANGED <<aborted, isLoaded, listeners, lastCall, cancels, fsSupported,
                 engineVars, driveVars, peripheryVars>>

\* fileSystem.ts saveFileToDirectory, lines 27-39
SaveSettled(k) ==
  /\ inv[k].pc = "save"
  /\ \E ok \in BOOLEAN :
       Continue(k, UploadStage([inv[k] EXCEPT !.saved = ok], processingQueue))
  /\ UNCHANGED <<aborted, userDirectoryHandle, isLoaded, listeners, lastCall, cancels, fsSupported,
                 engineVars, driveVars, peripheryVars>>

\* fileSystem.ts readBackFile, lines 41-44
ReadBackSettled(k) ==
  /\ inv[k].pc = "readBack"
  /\ \E ok \in BOOLEAN :
       IF ok THEN Continue(k, At(inv[k], processingQueue, "uploadAuth"))
             ELSE Continue(k, UploadFailed(inv[k], processingQueue))
  /\ UNCHANGED <<aborted, userDirectoryHandle, isLoaded, listeners, lastCall, cancels, fsSupported,
                 engineVars, driveVars, peripheryVars>>

\* uploadToGoogleDrive, lines 443-445: authenticate settled
UploadAuthSettled(k) ==
  /\ inv[k].pc = "uploadAuth"
  /\ \E ok \in BOOLEAN :
       IF ok THEN Continue(k, At(inv[k], processingQueue, "upload"))
             ELSE Continue(k, UploadFailed(inv[k], processingQueue))
  /\ UNCHANGED <<aborted, userDirectoryHandle, isLoaded, listeners, lastCall, cancels, fsSupported,
                 engineVars, driveVars, peripheryVars>>

\* uploadToGoogleDrive, lines 446-455: googleDriveService.uploadFile settled
UploadSettled(k) ==
  /\ inv[k].pc = "upload"
  /\ \E ok \in BOOLEAN :
       IF ok THEN Continue(k, UploadSucceeded(inv[k], processingQueue))
             ELSE Continue(k, UploadFailed(inv[k], processingQueue))
  /\ UNCHANGED <<aborted, userDirectoryHandle, isLoaded, listeners, lastCall, cancels, fsSupported,
                 engineVars, driveVars, peripheryVars>>

\* shortenUrl, lines 23-38: the proxy request settled; this.config.apiKey
\* (VITE_TINYURL_API_KEY of the deployment) is read when the proxy gave no short URL
ShortenProxySettled(k) ==
  /\ inv[k].pc = "shortenProxy"
  /\ \E ok \in BOOLEAN, hasApiKey \in BOOLEAN :
       IF ok THEN Continue(k, ShortenSucceeded(inv[k], processingQueue))
             ELSE Continue(k, [r |-> shortenUrlAfterProxy(inv[k], hasApiKey), q |-> processingQueue])
  /\ UNCHANGED <<aborted, userDirectoryHandle, isLoaded, listeners, lastCall, cancels, fsSupported,
                 engineVars, driveVars, peripheryVars>>

\* shortenUrl, lines 41-98: the direct request to the provider settled
ShortenDirectSettled(k) ==
  /\ inv[k].pc = "shortenDirect"
  /\ \E ok \in BOOLEAN :
       IF ok THEN Continue(k, ShortenSucceeded(inv[k], processingQueue))
             ELSE Continue(k, ShortenFailed(inv[k], processingQueue))
  /\ UNCHANGED <<aborted, userDirectoryHandle, isLoaded, listeners, lastCall, cancels, fsSupported,
                 engineVars, driveVars, peripheryVars>>

\* fileSystem.ts deleteSavedFile settled (lines 361-367): either way the task completes
DeleteSavedSettled(k) ==
  /\ inv[k].pc = "deleteSaved"
  /\ Continue(k, Complete(inv[k], processingQueue))
  /\ UNCHANGED <<aborted, userDirectoryHandle, isLoaded, listeners, lastCall, cancels, fsSupported,
                 engineVars, driveVars, peripheryVars>>

(***************************************************************************)
(* utils/ffmpeg.ts from inside: the calls on the VideoProcessor singleton, *)
(* cut at their awaits, with the virtual filesystem of the FFmpeg instance.*)
(* The calls are made one after another.                                   *)
(***************************************************************************)
InputFileName == "input.src"

FixedName == "input.fixed.mp4"

OutputFileName(format) == IF format = "webm" THEN "output.webm" ELSE "output.mp4"

\* the files compressVideo and its helpers create
CompressionFiles == {InputFileName, FixedName, OutputFileName("webm"), OutputFileName("mp4")}

ThumbnailInput == "input.mp4"

ThumbnailOutput == "thumbnail.jpg"

NoCall ==
  [op |-> "none", pc |-> "idle", preferredFormat |-> "webm",
   normalizedInputName |-> InputFileName, encoders |-> <<>>, resultFile |-> "none",
   error |-> NoError, strategy |-> 0]

Idle == call.pc \in {"idle", "returned", "threw"}

\* the end of a call: the promise resolves, or rejects when an error was caught
Finish(c) == [c EXCEPT !.pc = IF c.error = NoError THEN "returned" ELSE "threw"]

\* the first lines of compressVideo, generateThumbnail and getVideoInfo:
\* if (!this.isLoaded || !this.ffmpeg) await this.load()
NewCall(op, preferredFormat) ==
  [NoCall EXCEPT !.op = op, !.preferredFormat = preferredFormat,
                 !.pc = IF ~isLoaded THEN "load" ELSE "writeInput",
                 !.strategy = IF ~isLoaded THEN 1 ELSE 0]

\* the encoder whose compressTo... is running
CurrentEncoder(c) == c.encoders[Len(c.encoders)]

\* lines 144-169: the catch of an encoder; the other encoder once, then no encoder
EncoderFailed(c) ==
  IF Len(c.encoders) = 1
    THEN [c EXCEPT !.encoders = Append(@, FallbackEncoder(c.preferredFormat)), !.pc = "exec"]
    ELSE [c EXCEPT !.pc = "readNormalized"]

StartCall(c) ==
  /\ Idle
  /\ calls < MaxCalls
  /\ calls' = calls + 1
  /\ call' = c

\* load(), lines 28-33: returns at once when the runtime is loaded
load ==
  /\ StartCall(IF isLoaded THEN [NoCall EXCEPT !.op = "load", !.pc = "returned"]
                           ELSE [NoCall EXCEPT !.op = "load", !.pc = "load", !.strategy = 1])
  /\ UNCHANGED <<isProcessing, abortController, aborted, userDirectoryHandle, processingQueue,
                 inv, isLoaded, listeners, lastCall, cancels, fsSupported,
                 vfs, loadedOnce, reloaded, delivered, driveVars, peripheryVars>>

\* compressVideo, lines 102-113
compressVideo(preferredFormat) ==
  /\ StartCall(NewCall("compressVideo", preferredFormat))
  /\ UNCHANGED <<isProcessing, abortController, aborted, userDirectoryHandle, processingQueue,
                 inv, isLoaded, listeners, lastCall, cancels, fsSupported,
                 vfs, loadedOnce, reloaded, delivered, driveVars, peripheryVars>>

\* generateThumbnail, lines 306-316
generateThumbnail ==
  /\ StartCall(NewCall("generateThumbnail", "webm"))
  /\ UNCHANGED <<isProcessing, abortController, aborted, userDirectoryHandle, processingQueue,
                 inv, isLoaded, listeners, lastCall, cancels, fsSupported,
                 vfs, loadedOnce, reloaded, delivered, driveVars, peripheryVars>>

\* getVideoInfo, lines 357-369
getVideoInfo ==
  /\ StartCall(NewCall("getVideoInfo", "webm"))
  /\ UNCHANGED <<isProcessing, abortController, aborted, userDirectoryHandle, processingQueue,
                 inv, isLoaded, listeners, lastCall, cancels, fsSupported,
                 vfs, loadedOnce, reloaded, delivered, driveVars, peripheryVars>>

\* cleanup, lines 412-417: the flag is reset, the FFmpeg instance is left as it is
cleanup ==
  /\ StartCall([NoCall EXCEPT !.op = "cleanup", !.pc = "returned"])
  /\ isLoaded' = FALSE
  /\ UNCHANGED <<isProcessing, abortController, aborted, userDirectoryHandle, processingQueue,
                 inv, listeners, lastCall, cancels, fsSupported,
                 vfs, loadedOnce, reloaded, delivered, driveVars, peripheryVars>>

\* load(), lines 39-99: one loading strategy settled.  A strategy may fail before it
\* reaches this.ffmpeg.load() (the static files test, toBlobURL) or in it.
LoadStrategySettled ==
  /\ call.pc = "load"
  /\ \E invoked \in BOOLEAN, ok \in BOOLEAN :
       /\ ok => invoked
       /\ reloaded' = (reloaded \/ (invoked /\ loadedOnce))
       /\ IF ok
            THEN /\ isLoaded' = TRUE
                 /\ loadedOnce' = TRUE
                 /\ call' = IF call.op = "load" THEN Finish(call)
                                                ELSE [call EXCEPT !.pc = "writeInput"]
            ELSE /\ UNCHANGED <<isLoaded, loadedOnce>>
                 /\ call' = IF call.strategy = 1
                              THEN [call EXCEPT !.strategy = 2]
                              ELSE Finish([call EXCEPT !.error = "Failed to initialize video processor"])
  /\ UNCHANGED <<isProcessing, abortController, aborted, userDirectoryHandle, processingQueue,
                 inv, listeners, lastCall, cancels, fsSupported,
                 vfs, calls, delivered, driveVars, peripheryVars>>

\* compressVideo, lines 124-125: writeFile of input.src settled
WriteFileSettled ==
  /\ call.op = "compressVideo" /\ call.pc = "writeInput"
  /\ \E ok \in BOOLEAN :
       IF ok
         THEN /\ vfs' = vfs \cup {InputFileName}
              /\ call' = [call EXCEPT !.pc = "normalize"]
         ELSE /\ UNCHANGED vfs
              /\ call' = [call EXCEPT !.error = "Failed to compress video", !.pc = "deleteInput"]
  /\ UNCHANGED <<isProcessing, abortController, aborted, userDirectoryHandle, processingQueue,
                 inv, isLoaded, lastCall, cancels, fsSupported,
                 calls, loadedOnce, reloaded, listeners, delivered, driveVars, peripheryVars>>

\* compressVideo, lines 127-146/159 with normalizeToMP4, lines 194-208: the remux
\* settled (a failed exec may leave its output behind); the progress listener is
\* registered and the first encoder starts
NormalizeToMP4Settled ==
  /\ call.pc = "normalize"
  /\ \E ok \in BOOLEAN, left \in BOOLEAN :
       /\ vfs' = IF ok \/ left THEN vfs \cup {FixedName} ELSE vfs
       /\ call' = [call EXCEPT !.normalizedInputName = IF ok THEN FixedName ELSE InputFileName,
                               !.encoders = <<FirstEncoder(call.preferredFormat)>>,
                               !.pc = "exec"]
  /\ listeners' = Append(listeners, calls)
  /\ UNCHANGED <<isProcessing, abortController, aborted, userDirectoryHandle, processingQueue,
                 inv, isLoaded, lastCall, cancels, fsSupported,
                 calls, loadedOnce, reloaded, delivered, driveVars, peripheryVars>>

\* compressToWebM / compressToMP4, lines 220-239 / 269-288: the exec of the encoder
\* settled (a failed exec may leave its output behind)
ExecSettled ==
  /\ call.pc = "exec"
  /\ \E ok \in BOOLEAN, left \in BOOLEAN :
       /\ vfs' = IF ok \/ left THEN vfs \cup {OutputFileName(CurrentEncoder(call))} ELSE vfs
       /\ call' = IF ok THEN [call EXCEPT !.pc = "readOutput"] ELSE EncoderFailed(call)
  /\ UNCHANGED <<isProcessing, abortController, aborted, userDirectoryHandle, processingQueue,
                 inv, isLoaded, lastCall, cancels, fsSupported,
                 calls, loadedOnce, reloaded, listeners, delivered, driveVars, peripheryVars>>

\* compressToWebM / compressToMP4, lines 242 / 291: readFile of the output settled
ReadOutputSettled ==
  /\ call.pc = "readOutput"
  /\ \E ok \in BOOLEAN :
       call' = IF ok THEN [call EXCEPT !.pc = "deleteOutput"] ELSE EncoderFailed(call)
  /\ UNCHANGED vfs
  /\ UNCHANGED <<isProcessing, abortController, aborted, userDirectoryHandle, processingQueue,
                 inv, isLoaded, lastCall, cancels, fsSupported,
                 calls, loadedOnce, reloaded, listeners, delivered, driveVars, peripheryVars>>

\* compressToWebM / compressToMP4, lines 251-253 / 300-302: deleteFile of the output
\* settled; when it rejects the encoder call rejects and the output stays
DeleteOutputSettled ==
  /\ call.pc = "deleteOutput"
  /\ \E ok \in BOOLEAN :
       IF ok
         THEN /\ vfs' = vfs \ {OutputFileName(CurrentEncoder(call))}
              /\ call' = [call EXCEPT !.resultFile = CurrentEncoder(call), !.pc = "deleteInput"]
         ELSE /\ UNCHANGED vfs
              /\ call' = EncoderFailed(call)
  /\ UNCHANGED <<isProcessing, abortController, aborted, userDirectoryHandle, processingQueue,
                 inv, isLoaded, lastCall, cancels, fsSupported,
                 calls, loadedOnce, reloaded, listeners, delivered, driveVars, peripheryVars>>

\* compressVideo, lines 171-184: both encoders failed; readFile of the normalized
\* input settled
ReadNormalizedFileSettled ==
  /\ call.pc = "readNormalized"
  /\ \E ok \in BOOLEAN :
       call' = IF ok THEN [call EXCEPT !.resultFile = "normalized", !.pc = "deleteInput"]
                     ELSE [call EXCEPT !.error = "Failed to compress video", !.pc = "deleteInput"]
  /\ UNCHANGED vfs
  /\ UNCHANGED <<isProcessing, abortController, aborted, userDirectoryHandle, processingQueue,
                 inv, isLoaded, lastCall, cancels, fsSupported,
                 calls, loadedOnce, reloaded, listeners, delivered, driveVars, peripheryVars>>

\* compressVideo, lines 185-190: finally, deleteFile(inputFileName) settled; a
\* rejection is swallowed
DeleteInputSettled ==
  /\ call.op = "compressVideo" /\ call.pc = "deleteInput"
  /\ \E ok \in BOOLEAN :
       vfs' = IF ok THEN vfs \ {InputFileName} ELSE vfs
  /\ call' = IF call.normalizedInputName # InputFileName
               THEN [call EXCEPT !.pc = "deleteNormalized"]
               ELSE Finish(call)
  /\ UNCHANGED <<isProcessing, abortController, aborted, userDirectoryHandle, processingQueue,
                 inv, isLoaded, lastCall, cancels, fsSupported,
                 calls, loadedOnce, reloaded, listeners, delivered, driveVars, peripheryVars>>

\* compressVideo, lines 188-190: finally, deleteFile(normalizedInputName) settled
DeleteNormalizedSettled ==
  /\ call.pc = "deleteNormalized"
  /\ \E ok \in BOOLEAN :
       vfs' = IF ok THEN vfs \ {call.normalizedInputName} ELSE vfs
  /\ call' = Finish(call)
  /\ UNCHANGED <<isProcessing, abortController, aborted, userDirectoryHandle, processingQueue,
                 inv, isLoaded, lastCall, cancels, fsSupported,
                 calls, loadedOnce, reloaded, listeners, delivered, driveVars, peripheryVars>>

\* lines 136-140: a 'progress' event during an exec of compressVideo; each listener
\* registered so far passes clampProgress(event.progress * 100) to its onProgress
EngineProgress(value) ==
  /\ call.op = "compressVideo" /\ call.pc \in {"normalize", "exec"}
  /\ listeners # <<>>
  /\ delivered' = delivered \cup {clampProgress(value)}
  /\ UNCHANGED <<isProcessing, abortController, aborted, userDirectoryHandle, processingQueue,
                 inv, isLoaded, listeners, lastCall, cancels, fsSupported,
                 vfs, call, calls, loadedOnce, reloaded, driveVars, peripheryVars>>

\* generateThumbnail, line 326: writeFile of input.mp4 settled
ThumbnailWriteSettled ==
  /\ call.op = "generateThumbnail" /\ call.pc = "writeInput"
  /\ \E ok \in BOOLEAN :
       IF ok
         THEN /\ vfs' = vfs \cup {ThumbnailInput}
              /\ call' = [call EXCEPT !.pc = "thumbExec"]
         ELSE /\ vfs' = vfs
              /\ call' = Finish([call EXCEPT !.error = "Failed to generate thumbnail"])
  /\ UNCHANGED <<isProcessing, abortController, aborted, userDirectoryHandle, processingQueue,
                 inv, isLoaded, lastCall, cancels, fsSupported,
                 calls, loadedOnce, reloaded, listeners, delivered, driveVars, peripheryVars>>

\* generateThumbnail, lines 329-336: the exec settled (a failed exec may leave its output behind)
ThumbnailExecSettled ==
  /\ call.op = "generateThumbnail" /\ call.pc = "thumbExec"
  /\ \E ok \in BOOLEAN, left \in BOOLEAN :
       IF ok
         THEN /\ vfs' = vfs \cup {ThumbnailOutput}
              /\ call' = [call EXCEPT !.pc = "thumbRead"]
         ELSE /\ vfs' = IF left THEN vfs \cup {ThumbnailOutput} ELSE vfs
              /\ call' = Finish([call EXCEPT !.error = "Failed to generate thumbnail"])
  /\ UNCHANGED <<isProcessing, abortController, aborted, userDirectoryHandle, processingQueue,
                 inv, isLoaded, lastCall, cancels, fsSupported,
                 calls, loadedOnce, reloaded, listeners, delivered, driveVars, peripheryVars>>

\* generateThumbnail, line 339: readFile of thumbnail.jpg settled
ThumbnailReadSettled ==
  /\ call.op = "generateThumbnail" /\ call.pc = "thumbRead"
  /\ \E ok \in BOOLEAN :
       IF ok
         THEN /\ vfs' = vfs
              /\ call' = [call EXCEPT !.pc = "thumbDeleteInput"]
         ELSE /\ vfs' = vfs
              /\ call' = Finish([call EXCEPT !.error = "Failed to generate thumbnail"])
  /\ UNCHANGED <<isProcessing, abortController, aborted, userDirectoryHandle, processingQueue,
                 inv, isLoaded, lastCall, cancels, fsSupported,
                 calls, loadedOnce, reloaded, listeners, delivered, driveVars, peripheryVars>>

\* generateThumbnail, line 346: deleteFile of input.mp4 settled
ThumbnailDeleteInputSettled ==
  /\ call.op = "generateThumbnail" /\ call.pc = "thumbDeleteInput"
  /\ \E ok \in BOOLEAN :
       IF ok
         THEN /\ vfs' = vfs \ {ThumbnailInput}
              /\ call' = [call EXCEPT !.pc = "thumbDeleteOutput"]
         ELSE /\ vfs' = vfs
              /\ call' = Finish([call EXCEPT !.error = "Failed to generate thumbnail"])
  /\ UNCHANGED <<isProcessing, abortController, aborted, userDirectoryHandle, processingQueue,
                 inv, isLoaded, lastCall, cancels, fsSupported,
                 calls, loadedOnce, reloaded, listeners, delivered, driveVars, peripheryVars>>

\* generateThumbnail, lines 347-349: deleteFile of thumbnail.jpg settled
ThumbnailDeleteOutputSettled ==
  /\ call.op = "generateThumbnail" /\ call.pc = "thumbDeleteOutput"
  /\ \E ok \in BOOLEAN :
       IF ok
         THEN /\ vfs' = vfs \ {ThumbnailOutput}
              /\ call' = Finish(call)
         ELSE /\ vfs' = vfs
              /\ call' = Finish([call EXCEPT !.error = "Failed to generate thumbnail"])
  /\ UNCHANGED <<isProcessing, abortController, aborted, userDirectoryHandle, processingQueue,
                 inv, isLoaded, lastCall, cancels, fsSupported,
                 calls, loadedOnce, reloaded, listeners, delivered, driveVars, peripheryVars>>

\* getVideoInfo, line 378: writeFile of input.mp4 settled
InfoWriteSettled ==
  /\ call.op = "getVideoInfo" /\ call.pc = "writeInput"
  /\ \E ok \in BOOLEAN :
       IF ok
         THEN /\ vfs' = vfs \cup {ThumbnailInput}
              /\ call' = [call EXCEPT !.pc = "infoExec"]
         ELSE /\ vfs' = vfs
              /\ call' = Finish([call EXCEPT !.error = "Failed to get video information"])
  /\ UNCHANGED <<isProcessing, abortController, aborted, userDirectoryHandle, processingQueue,
                 inv, isLoaded, lastCall, cancels, fsSupported,
                 calls, loadedOnce, reloaded, listeners, delivered, driveVars, peripheryVars>>

\* getVideoInfo, lines 381-385: the exec settled
InfoExecSettled ==
  /\ call.op = "getVideoInfo" /\ call.pc = "infoExec"
  /\ \E ok \in BOOLEAN :
       IF ok
         THEN /\ vfs' = vfs
              /\ call' = [call EXCEPT !.pc = "infoDelete"]
         ELSE /\ vfs' = vfs
              /\ call' = Finish([call EXCEPT !.error = "Failed to get video information"])
  /\ UNCHANGED <<isProcessing, abortController, aborted, userDirectoryHandle, processingQueue,
                 inv, isLoaded, lastCall, cancels, fsSupported,
                 calls, loadedOnce, reloaded, listeners, delivered, driveVars, peripheryVars>>

\* getVideoInfo, lines 395-397: deleteFile of input.mp4 settled
InfoDeleteSettled ==
  /\ call.op = "getVideoInfo" /\ call.pc = "infoDelete"
  /\ \E ok \in BOOLEAN :
       IF ok
         THEN /\ vfs' = vfs \ {ThumbnailInput}
              /\ call' = Finish(call)
         ELSE /\ vfs' = vfs
              /\ call' = Finish([call EXCEPT !.error = "Failed to get video information"])
  /\ UNCHANGED <<isProcessing, abortController, aborted, userDirectoryHandle, processingQueue,
                 inv, isLoaded, lastCall, cancels, fsSupported,
                 calls, loadedOnce, reloaded, listeners, delivered, driveVars, peripheryVars>>

(***************************************************************************)
(* utils/googleDrive.ts from inside: one uploadFile call, cut at its       *)
(* awaits, with the HTTP requests it issues.  Sizes and offsets are in     *)
(* bytes, scaled down: the chunk size and the threshold keep their order.  *)
(***************************************************************************)
\* chunkSize: config.chunkSize || 256 * 1024, scaled
ChunkSize == 2

\* file.size > 5 * 1024 * 1024, scaled
ResumableThreshold == 5

\* file sizes below, at and above the threshold
FileSizes == {3, 5, 12}

DigitChars == <<"0", "1", "2", "3", "4", "5", "6", "7", "8", "9">>

\* the decimal digits of n, as the server writes them
RECURSIVE DecimalString(_)
DecimalString(n) ==
  IF n < 10 THEN <<DigitChars[n + 1]>>
            ELSE DecimalString(n \div 10) \o <<DigitChars[(n % 10) + 1]>>

\* the Range header of a 308 response that has stored bytes 0..e
RangeHeader(e) == <<"b", "y", "t", "e", "s", "=", "0", "-">> \o DecimalString(e)

IsDigit(c) == \E d \in 0..9 : DigitChars[d + 1] = c

DigitValue(c) == CHOOSE d \in 0..9 : DigitChars[d + 1] = c

\* the text of s before the first separator (all of s when there is none)
RECURSIVE UpToSeparator(_, _)
UpToSeparator(s, sep) ==
  IF s = <<>> \/ Head(s) = sep THEN <<>>
  ELSE <<Head(s)>> \o UpToSeparator(Tail(s), sep)

\* String.prototype.split(sep)[1]: the text between the first and the second
\* separator; <<"undefined">> when s holds no separator
SplitSecond(s, sep) ==
  LET first == UpToSeparator(s, sep)
  IN IF Len(first) = Len(s) THEN <<"undefined">>
     ELSE UpToSeparator(SubSeq(s, Len(first) + 2, Len(s)), sep)

\* parseInt: the value of the leading decimal digits, NaN when there is none
RECURSIVE ParseDigits(_, _)
ParseDigits(s, acc) ==
  IF s = <<>> \/ ~IsDigit(Head(s)) THEN acc
  ELSE ParseDigits(Tail(s), acc * 10 + DigitValue(Head(s)))

parseInt(s) ==
  IF s = <<>> \/ ~IsDigit(Head(s)) THEN NaN ELSE Num(ParseDigits(s, 0))

\* a variant of nextByte that resumes at the last stored byte
nextByteAtRangeEnd(rangeHeader) ==
  parseInt(SplitSecond(rangeHeader, "-"))

\* line 225: const nextByte = parseInt(rangeHeader.split('-')[1]) + 1
nextByte(rangeHeader) ==
  LET end == parseInt(SplitSecond(rangeHeader, "-"))
  IN IF end.kind = "finite" THEN Num(end.v + 1) ELSE NaN

NoRequest == [kind |-> "none", from |-> 0]

NoResponse == [status |-> 0, hasRange |-> FALSE, rangeEnd |-> 0, chunkEnd |-> 0]

NoUpload ==
  [pc |-> "idle", caller |-> "none", size |-> 0, resumable |-> FALSE,
   uploadedBytes |-> 0, chunkEnd |-> 0, chunks |-> 0, request |-> NoRequest, sent |-> 0,
   response |-> NoResponse, permissionFailed |-> FALSE, error |-> NoError]

\* uploadFile, lines 114-131: the configuration, then the chosen protocol up to its
\* first await (ensureAccessToken).  resumable is "true", "false" or "undefined".
uploadFile(caller, size, resumable) ==
  [NoUpload EXCEPT !.pc = "token", !.caller = caller, !.size = size,
                   !.resumable = IF resumable = "undefined" THEN size > ResumableThreshold
                                                            ELSE resumable = "true"]

\* videoProcessing.ts, lines 446-451: the call of uploadFile by uploadToGoogleDrive
\* (its third argument, the abort signal, is no parameter of uploadFile)
uploadToGoogleDrive(size) == uploadFile("processVideo", size, "true")

\* an HTTP request goes out
Issue(u, kind, from) ==
  [u EXCEPT !.request = [kind |-> kind, from |-> from], !.sent = Min(@ + 1, MaxSent)]

Reject(u, message) == [u EXCEPT !.pc = "rejected", !.error = message]

\* lines 208-219 and 242: the next turn of the while loop; 'Upload incomplete' after it
NextChunk(u, uploadedBytes) ==
  IF uploadedBytes.kind = "finite" /\ uploadedBytes.v < u.size
    THEN LET chunkEnd == Min(uploadedBytes.v + ChunkSize, u.size)
         IN Issue([u EXCEPT !.pc = "chunk", !.uploadedBytes = uploadedBytes.v,
                            !.chunkEnd = chunkEnd, !.chunks = Min(@ + 1, MaxChunks)],
                  "PUT", uploadedBytes.v)
    ELSE Reject(u, "Upload incomplete")

\* lines 162-166 and 230-235: the file was created; setPublicLink is awaited in a try
Created(u) == Issue([u EXCEPT !.pc = "permission"], "POST permissions", 0)

NextEngine ==
  \/ load
  \/ \E preferredFormat \in Formats : compressVideo(preferredFormat)
  \/ generateThumbnail
  \/ getVideoInfo
  \/ cleanup
  \/ LoadStrategySettled
  \/ WriteFileSettled
  \/ NormalizeToMP4Settled
  \/ ExecSettled
  \/ ReadOutputSettled
  \/ DeleteOutputSettled
  \/ ReadNormalizedFileSettled
  \/ DeleteInputSettled
  \/ DeleteNormalizedSettled
  \/ \E value \in RawProgress : EngineProgress(value)
  \/ ThumbnailWriteSettled
  \/ ThumbnailExecSettled
  \/ ThumbnailReadSettled
  \/ ThumbnailDeleteInputSettled
  \/ ThumbnailDeleteOutputSettled
  \/ InfoWriteSettled
  \/ InfoExecSettled
  \/ InfoDeleteSettled

Init ==
  /\ isProcessing = FALSE
  /\ abortController = {}
  /\ aborted = {}
  /\ userDirectoryHandle = FALSE
  /\ processingQueue = <<>>
  /\ inv = <<>>
  /\ isLoaded = FALSE
  /\ listeners = <<>>
  /\ lastCall = "none"
  /\ cancels = 0
  /\ fsSupported \in BOOLEAN
  /\ vfs = {}
  /\ call = NoCall
  /\ calls = 0
  /\ loadedOnce = FALSE
  /\ reloaded = FALSE
  /\ delivered = {}
  /\ upload = NoUpload
  /\ uploads = 0
  /\ validation = NoValidation
  /\ selectedFile = NoFile
  /\ uploaderErrorMessage = NoMessage
  /\ pageIsProcessing = FALSE
  /\ handler = NoHandler

Next ==
  \/ \E options \in ProcessingOptions : processVideo(SampleFile, options) /\ UNCHANGED peripheryVars
  \/ cancelProcessing
  \/ \E value \in RawProgress : ProgressEvent(value)
  \/ \E k \in DOMAIN inv : PreAuthSettled(k)
  \/ \E k \in DOMAIN inv : LoadSettled(k)
  \/ \E k \in DOMAIN inv : WriteInputSettled(k)
  \/ \E k \in DOMAIN inv : NormalizeSettled(k)
  \/ \E k \in DOMAIN inv : EncoderSettled(k)
  \/ \E k \in DOMAIN inv : ReadNormalizedSettled(k)
  \/ \E k \in DOMAIN inv : CompressCleanupSettled(k)
  \/ \E k \in DOMAIN inv : PickDirectorySettled(k)
  \/ \E k \in DOMAIN inv : SaveSettled(k)
  \/ \E k \in DOMAIN inv : ReadBackSettled(k)
  \/ \E k \in DOMAIN inv : UploadAuthSettled(k)
  \/ \E k \in DOMAIN inv : UploadSettled(k)
  \/ \E k \in DOMAIN inv : ShortenProxySettled(k)
  \/ \E k \in DOMAIN inv : ShortenDirectSettled(k)
  \/ \E k \in DOMAIN inv : DeleteSavedSettled(k)

Spec == Init /\ [][Next]_vars

\* the VideoProcessor alone, under any sequence of calls
SpecEngine == Init /\ [][NextEngine]_vars

\* a call of uploadFile by another caller than processVideo, with any configuration
UploadFileCalled(size, resumable) ==
  /\ upload.pc \in {"idle", "resolved", "rejected"}
  /\ uploads < MaxUploads
  /\ uploads' = uploads + 1
  /\ upload' = uploadFile("direct", size, resumable)
  /\ UNCHANGED <<isProcessing, abortController, aborted, userDirectoryHandle, processingQueue,
                 inv, isLoaded, listeners, lastCall, cancels, fsSupported, engineVars, peripheryVars>>

\* lines 137 / 174: ensureAccessToken settled; then the first request of the protocol
TokenSettled ==
  /\ upload.pc = "token"
  /\ \E ok \in BOOLEAN :
       upload' = IF ~ok THEN Reject(upload, "Authentication failed")
                 ELSE IF upload.resumable
                   THEN Issue([upload EXCEPT !.pc = "init"], "POST resumable", 0)
                   ELSE Issue([upload EXCEPT !.pc = "multipart"], "POST multipart", 0)
  /\ UNCHANGED <<isProcessing, abortController, aborted, userDirectoryHandle, processingQueue,
                 inv, isLoaded, listeners, lastCall, cancels, fsSupported, engineVars, uploads, peripheryVars>>

\* uploadFileSimple, lines 148-162: the multipart request settled
MultipartSettled ==
  /\ upload.pc = "multipart"
  /\ \E ok \in BOOLEAN :
       upload' = IF ok THEN Created(upload) ELSE Reject(upload, "Upload failed")
  /\ UNCHANGED <<isProcessing, abortController, aborted, userDirectoryHandle, processingQueue,
                 inv, isLoaded, listeners, lastCall, cancels, fsSupported, engineVars, uploads, peripheryVars>>

\* uploadFileResumable, lines 181-209: the initialising request settled
InitSettled ==
  /\ upload.pc = "init"
  /\ \E ok \in BOOLEAN :
       upload' = IF ok THEN NextChunk(upload, Num(0))
                       ELSE Reject(upload, "Upload initialization failed")
  /\ UNCHANGED <<isProcessing, abortController, aborted, userDirectoryHandle, processingQueue,
                 inv, isLoaded, listeners, lastCall, cancels, fsSupported, engineVars, uploads, peripheryVars>>

\* uploadFileResumable, lines 212-239: the PUT of a chunk settled.  The server
\* answers 308 with the range it has stored so far, 308 without a Range header,
\* 200, or an error.
ChunkSettled ==
  /\ upload.pc = "chunk"
  /\ \/ \E e \in 0..(upload.chunkEnd - 1) :
          upload' = NextChunk([upload EXCEPT !.response =
                                 [status |-> 308, hasRange |-> TRUE, rangeEnd |-> e,
                                  chunkEnd |-> upload.chunkEnd]],
                              nextByte(RangeHeader(e)))
     \/ upload' = NextChunk([upload EXCEPT !.response =
                               [NoResponse EXCEPT !.status = 308, !.chunkEnd = upload.chunkEnd]],
                            Num(upload.chunkEnd))
     \/ upload' = Created([upload EXCEPT !.response =
                             [NoResponse EXCEPT !.status = 200, !.chunkEnd = upload.chunkEnd]])
     \/ upload' = Reject([upload EXCEPT !.response =
                            [NoResponse EXCEPT !.status = 500, !.chunkEnd = upload.chunkEnd]],
                         "Chunk upload failed")
  /\ UNCHANGED <<isProcessing, abortController, aborted, userDirectoryHandle, processingQueue,
                 inv, isLoaded, listeners, lastCall, cancels, fsSupported, engineVars, uploads, peripheryVars>>

\* a variant without the try around setPublicLink: its failure rejects uploadFile
PermissionFailureFatal ==
  /\ upload.pc = "permission"
  /\ \E ok \in BOOLEAN :
       upload' = IF ok THEN Issue([upload EXCEPT !.pc = "fileInfo"], "GET file", 0)
                       ELSE Reject([upload EXCEPT !.permissionFailed = TRUE],
                                   "Failed to set public permission")
  /\ UNCHANGED <<isProcessing, abortController, aborted, userDirectoryHandle, processingQueue,
                 inv, isLoaded, listeners, lastCall, cancels, fsSupported, engineVars, uploads, peripheryVars>>

\* lines 164-167 / 233-236 with setPublicLink, lines 290-311: the permission request
\* settled; a failure is swallowed, and getFileInfo is called either way
PermissionSettled ==
  /\ upload.pc = "permission"
  /\ \E ok \in BOOLEAN :
       upload' = Issue([upload EXCEPT !.pc = "fileInfo", !.permissionFailed = ~ok], "GET file", 0)
  /\ UNCHANGED <<isProcessing, abortController, aborted, userDirectoryHandle, processingQueue,
                 inv, isLoaded, listeners, lastCall, cancels, fsSupported, engineVars, uploads, peripheryVars>>

\* getFileInfo, lines 271-288: the file info request settled, and with it uploadFile
FileInfoSettled ==
  /\ upload.pc = "fileInfo"
  /\ \E ok \in BOOLEAN :
       upload' = IF ok THEN [upload EXCEPT !.pc = "resolved"]
                       ELSE Reject(upload, "Failed to get file info")
  /\ UNCHANGED <<isProcessing, abortController, aborted, userDirectoryHandle, processingQueue,
                 inv, isLoaded, listeners, lastCall, cancels, fsSupported, engineVars, uploads, peripheryVars>>

\* processVideo has reached googleDriveService.uploadFile for its first task:
\* the state after processVideo, PreAuthSettled, the compression steps and
\* UploadAuthSettled, in a browser without the File System Access API
InitDrive ==
  /\ isProcessing = TRUE
  /\ abortController = {1}
  /\ aborted = {}
  /\ userDirectoryHandle = FALSE
  /\ isLoaded = TRUE
  /\ listeners = <<1>>
  /\ lastCall = "accepted"
  /\ cancels = 0
  /\ fsSupported = FALSE
  /\ LET started == StartTask(NewInvocation(1, DefaultOptions), addToQueue(<<>>, SampleFile))
         compressing == StartCompression(started.r, started.q)
         staged == AfterCompression(EngineReturned(compressing.r), compressing.q)
     IN /\ processingQueue = staged.q
        /\ inv = <<[staged.r EXCEPT !.pc = "upload"]>>
  /\ vfs = {}
  /\ call = NoCall
  /\ calls = 0
  /\ loadedOnce = FALSE
  /\ reloaded = FALSE
  /\ delivered = {}
  /\ \E size \in FileSizes : upload = uploadToGoogleDrive(size)
  /\ uploads = 1
  /\ validation = NoValidation
  /\ selectedFile = NoFile
  /\ uploaderErrorMessage = NoMessage
  /\ pageIsProcessing = FALSE
  /\ handler = NoHandler

NextDrive ==
  \/ cancelProcessing
  \/ \E size \in FileSizes, resumable \in {"true", "false", "undefined"} :
       UploadFileCalled(size, resumable)
  \/ TokenSettled
  \/ MultipartSettled
  \/ InitSettled
  \/ ChunkSettled
  \/ PermissionSettled
  \/ FileInfoSettled

\* one upload of processVideo under cancellation, and later uploadFile calls
SpecDrive == InitDrive /\ [][NextDrive]_vars

(***************************************************************************)
(* The upload of processVideo to its end: googleDriveService.uploadFile    *)
(* from inside, and processVideo after it.  Every external call settles:   *)
(* each continuation is taken once its call has settled (weak fairness),   *)
(* with whatever outcome the other side chooses.                           *)
(***************************************************************************)
\* uploadToGoogleDrive, lines 446-455: googleDriveService.uploadFile settled
UploadReturned(k) ==
  /\ inv[k].pc = "upload"
  /\ upload.caller = "processVideo"
  /\ upload.pc \in {"resolved", "rejected"}
  /\ IF upload.pc = "resolved"
       THEN Continue(k, UploadSucceeded(inv[k], processingQueue))
       ELSE Continue(k, UploadFailed(inv[k], processingQueue))
  /\ UNCHANGED <<aborted, userDirectoryHandle, isLoaded, listeners, lastCall, cancels, fsSupported,
                 engineVars, driveVars, peripheryVars>>

NextLive ==
  \/ TokenSettled
  \/ InitSettled
  \/ ChunkSettled
  \/ PermissionSettled
  \/ FileInfoSettled
  \/ \E k \in DOMAIN inv : UploadReturned(k)
  \/ \E k \in DOMAIN inv : ShortenProxySettled(k)
  \/ \E k \in DOMAIN inv : ShortenDirectSettled(k)

\* one task from its upload on, when every external call settles
SpecLive ==
  /\ InitDrive /\ [][NextLive]_vars
  /\ WF_vars(TokenSettled)
  /\ WF_vars(InitSettled)
  /\ WF_vars(ChunkSettled)
  /\ WF_vars(PermissionSettled)
  /\ WF_vars(FileInfoSettled)
  /\ WF_vars(\E k \in DOMAIN inv : UploadReturned(k))
  /\ WF_vars(\E k \in DOMAIN inv : ShortenProxySettled(k))
  /\ WF_vars(\E k \in DOMAIN inv : ShortenDirectSettled(k))

(***************************************************************************)
(* services/videoProcessing.ts: validateFile, a method that reads no field *)
(* of the service.  Strings that the code takes apart are sequences of     *)
(* characters.                                                             *)
(***************************************************************************)
UpperChars == <<"A", "B", "C", "D", "E", "F", "G", "H", "I", "J", "K", "L", "M", "N", "O", "P", "Q", "R", "S", "T", "U", "V", "W", "X", "Y", "Z">>

LowerChars == <<"a", "b", "c", "d", "e", "f", "g", "h", "i", "j", "k", "l", "m", "n", "o", "p", "q", "r", "s", "t", "u", "v", "w", "x", "y", "z">>

\* String.prototype.toLowerCase
toLowerCase(s) ==
  [i \in 1..Len(s) |->
     IF \E n \in 1..26 : UpperChars[n] = s[i]
       THEN LowerChars[CHOOSE n \in 1..26 : UpperChars[n] = s[i]]
       ELSE s[i]]

\* s.split(sep).pop(): the text after the last separator (all of s when there is none)
RECURSIVE SplitPop(_, _)
SplitPop(s, sep) ==
  LET first == UpToSeparator(s, sep)
  IN IF Len(first) = Len(s) THEN s
     ELSE SplitPop(SubSeq(s, Len(first) + 2, Len(s)), sep)

\* line 498: const maxSize = 50 * 1024 * 1024
maxSize == 50 * 1024 * 1024

\* line 511
supportedFormats ==
  {<<"w", "e", "b", "m">>,
   <<"m", "p", "4">>,
   <<"a", "v", "i">>,
   <<"m", "o", "v">>,
   <<"m", "k", "v">>,
   <<"w", "m", "v">>,
   <<"f", "l", "v">>,
   <<"3", "g", "p">>}

\* lines 524-533
supportedMimeTypes ==
  {"video/webm", "video/mp4", "video/avi", "video/quicktime", "video/x-matroska",
   "video/x-ms-wmv", "video/x-flv", "video/3gpp"}

\* an entry of errors: the rule that the file violates; the message of the size rule
\* names the maximum
ValidationError(rule, maximum) == [rule |-> rule, maximum |-> maximum]

\* a variant of validateFile that does not look at the MIME type
validateFileWithoutMimeRule(file) ==
  LET fileExtension == toLowerCase(SplitPop(file.name, "."))
      errors ==
        (IF file.size > maxSize THEN <<ValidationError("size", maxSize)>> ELSE <<>>)
        \o (IF fileExtension = <<>> \/ fileExtension \notin supportedFormats
              THEN <<ValidationError("format", 0)>> ELSE <<>>)
  IN [isValid |-> Len(errors) = 0, errors |-> errors]

\* validateFile, lines 491-545 (the warnings of lines 503-507, 516-519 and 537-540
\* only write to the console)
validateFile(file) ==
  LET fileExtension == toLowerCase(SplitPop(file.name, "."))
      errors ==
        (IF file.size > maxSize THEN <<ValidationError("size", maxSize)>> ELSE <<>>)
        \o (IF fileExtension = <<>> \/ fileExtension \notin supportedFormats
              THEN <<ValidationError("format", 0)>> ELSE <<>>)
        \o (IF file.type \notin supportedMimeTypes
              THEN <<ValidationError("mime", 0)>> ELSE <<>>)
  IN [isValid |-> Len(errors) = 0, errors |-> errors]

\* the files validateFile is called with.  Names: lower and upper case extensions,
\* several dots, no dot, a trailing dot, an extension outside the list.  Sizes in
\* bytes: empty, above the warning size, at the limit, one byte over it, 80 MB, over
\* 200 MiB.  MIME types: in the list, the type browsers give to .avi files, none,
\* not a video.
Files ==
  [name :
      {<<"c", "l", "i", "p", ".", "m", "p", "4">>,
       <<"C", "L", "I", "P", ".", "M", "P", "4">>,
       <<"c", "l", "i", "p", ".", "M", "o", "v">>,
       <<"a", ".", "b", ".", "w", "e", "b", "m">>,
       <<"c", "l", "i", "p", ".", "3", "g", "p">>,
       <<"c", "l", "i", "p", ".", "t", "x", "t">>,
       <<"c", "l", "i", "p", ".", "m", "p", "4", ".", "e", "x", "e">>,
       <<"c", "l", "i", "p">>,
       <<"c", "l", "i", "p", ".">>,
       <<"w", "e", "b", "m">>},
   size :
      {0, 20 * 1024 * 1024 + 1, 50 * 1024 * 1024, 50 * 1024 * 1024 + 1, 80 * 1000 * 1000,
       200 * 1024 * 1024 + 1},
   type : {"video/mp4", "video/quicktime", "video/x-msvideo", "", "text/plain"}]

\* a call of videoProcessingService.validateFile(file); it awaits nothing
CallValidateFile(file) ==
  /\ validation' = [called |-> TRUE, file |-> file,
                    isValid |-> validateFile(file).isValid, errors |-> validateFile(file).errors]
  /\ UNCHANGED <<isProcessing, abortController, aborted, userDirectoryHandle, processingQueue,
                 inv, isLoaded, listeners, lastCall, cancels, fsSupported, engineVars, driveVars,
                 selectedFile, uploaderErrorMessage, pageIsProcessing, handler>>

\* validateFile under any sequence of calls
SpecValidate == Init /\ [][\E file \in Files : CallValidateFile(file)]_vars

(***************************************************************************)
(* components/VideoUploader.svelte and the page that hosts it: the way of  *)
(* a file from the file dialog or a drop to processVideo.                  *)
(***************************************************************************)
\* stores/video.ts, line 40: appConfig.maxFileSize
maxFileSize == 200 * 1024 * 1024

\* stores/video.ts, line 41: appConfig.supportedFormats
appSupportedFormats ==
  {<<"m", "p", "4">>, <<"a", "v", "i">>, <<"m", "o", "v">>, <<"m", "k", "v">>, <<"w", "e", "b", "m">>}

\* VideoUploader.svelte validateFile, lines 76-88: the first violated rule, or null
uploaderValidateFile(file) ==
  LET fileExtension == toLowerCase(SplitPop(file.name, "."))
  IN IF fileExtension = <<>> \/ fileExtension \notin appSupportedFormats
       THEN ValidationError("format", 0)
       ELSE IF file.size > maxFileSize THEN ValidationError("size", maxFileSize)
                                       ELSE NoMessage

\* the files a user picks: a small MP4, an MP4 of 80 MB, an MP4 over 200 MiB, a text
\* file, and an MP4 whose MIME type is not a video type
PageFiles ==
  {SampleFile,
   [SampleFile EXCEPT !.size = 80 * 1000 * 1000],
   [SampleFile EXCEPT !.size = 200 * 1024 * 1024 + 1],
   [name |-> <<"n", "o", "t", "e", "s", ".", "t", "x", "t">>, size |-> 1024, type |-> "text/plain"],
   [SampleFile EXCEPT !.type = "text/plain"]}

\* handleStartProcessing of the page up to its await: processVideo is called unless
\* the page holds its own isProcessing flag
handleStartProcessing(file) ==
  /\ IF pageIsProcessing
       THEN UNCHANGED <<pageIsProcessing, isProcessing, abortController, aborted,
                        userDirectoryHandle, processingQueue, inv, isLoaded, listeners,
                        lastCall, cancels, fsSupported, engineVars, driveVars>>
       ELSE /\ pageIsProcessing' = TRUE
            /\ processVideo(file, [enableGoogleDrive |-> TRUE, enableTinyUrl |-> TRUE,
                                    preferredFormat |-> "mp4"])
  /\ UNCHANGED <<validation, handler>>

\* VideoUploader.svelte handleFileSelect, lines 90-103: a file that the uploader's
\* validateFile refuses is reported; any other file is dispatched to the page at once
handleFileSelect(file) ==
  LET error == uploaderValidateFile(file)
  IN IF error # NoMessage
       THEN /\ uploaderErrorMessage' = error
            /\ selectedFile' = NoFile
            /\ UNCHANGED <<pageIsProcessing, isProcessing, abortController, aborted,
                           userDirectoryHandle, processingQueue, inv, isLoaded, listeners,
                           lastCall, cancels, fsSupported, engineVars, driveVars,
                           validation, handler>>
       ELSE /\ uploaderErrorMessage' = NoMessage
            /\ selectedFile' = file
            /\ handleStartProcessing(file)

\* handleStartProcessing after its await: the promise of processVideo has settled,
\* and the finally block clears the flag of the page
StartProcessingSettled ==
  /\ pageIsProcessing
  /\ Running = {}
  /\ pageIsProcessing' = FALSE
  /\ UNCHANGED <<isProcessing, abortController, aborted, userDirectoryHandle, processingQueue,
                 inv, isLoaded, listeners, lastCall, cancels, fsSupported, engineVars, driveVars,
                 validation, selectedFile, uploaderErrorMessage, handler>>

NextPage ==
  \/ \E file \in PageFiles : handleFileSelect(file)
  \/ StartProcessingSettled
  \/ \E k \in DOMAIN inv : PreAuthSettled(k)
  \/ \E k \in DOMAIN inv : LoadSettled(k)
  \/ \E k \in DOMAIN inv : WriteInputSettled(k)
  \/ \E k \in DOMAIN inv : NormalizeSettled(k)
  \/ \E k \in DOMAIN inv : EncoderSettled(k)
  \/ \E k \in DOMAIN inv : ReadNormalizedSettled(k)
  \/ \E k \in DOMAIN inv : CompressCleanupSettled(k)
  \/ \E k \in DOMAIN inv : PickDirectorySettled(k)
  \/ \E k \in DOMAIN inv : SaveSettled(k)
  \/ \E k \in DOMAIN inv : ReadBackSettled(k)
  \/ \E k \in DOMAIN inv : UploadAuthSettled(k)
  \/ \E k \in DOMAIN inv : UploadSettled(k)
  \/ \E k \in DOMAIN inv : ShortenProxySettled(k)
  \/ \E k \in DOMAIN inv : ShortenDirectSettled(k)
  \/ \E k \in DOMAIN inv : DeleteSavedSettled(k)

\* the files a user picks in the uploader, and the tasks they start
SpecPage == Init /\ [][NextPage]_vars

(***************************************************************************)
(* routes/api/shorten/+server.ts: the POST handler, cut at its awaits      *)
(***************************************************************************)
\* the truthiness of a value
Truthy(v) == v.kind = "string" /\ v.text # <<>>

\* String.prototype.includes
Includes(s, sub) ==
  \E i \in 1..(Len(s) - Len(sub) + 1) : SubSeq(s, i, i + Len(sub) - 1) = sub

\* String.prototype.trim
RECURSIVE trim(_)
trim(s) ==
  IF s # <<>> /\ Head(s) = " " THEN trim(Tail(s))
  ELSE IF s # <<>> /\ s[Len(s)] = " " THEN trim(SubSeq(s, 1, Len(s) - 1))
  ELSE s

\* the request bodies: not JSON, without url, with an empty url, with a url, and
\* with a url and an alias
RequestBodies ==
  {NoBody,
   [NoBody EXCEPT !.parses = TRUE],
   [parses |-> TRUE, url |-> Str(<<>>), alias |-> Undefined],
   [parses |-> TRUE, url |-> Str(<<"d", ".", "c", "o", "/", "f">>), alias |-> Undefined],
   [parses |-> TRUE, url |-> Str(<<"d", ".", "c", "o", "/", "f">>), alias |-> Str(<<"v", "i", "d">>)],
   [parses |-> TRUE, url |-> Str(<<"d", ".", "c", "o", "/", "f">>), alias |-> Str(<<"e", "r", "r", "o", "r", "-", "l", "o", "g">>)]}

\* the short URL the provider issues: under the alias when one is asked for
IssuedShortUrl(alias) ==
  IF Truthy(alias) THEN <<"t", ".", "c", "o", "/">> \o alias.text ELSE <<"t", ".", "c", "o", "/", "a", "b">>

\* new Response(JSON.stringify({ error }), { status, headers })
ErrorResponse(status) ==
  [NoHttpResponse EXCEPT !.status = status, !.contentType = "application/json", !.error = TRUE]

\* new Response(JSON.stringify({ shortUrl, longUrl, alias }), { status: 200, headers })
ShortenedResponse(h, shortUrl) ==
  [NoHttpResponse EXCEPT !.status = 200, !.contentType = "application/json",
                         !.shortUrl = Str(shortUrl), !.longUrl = h.longUrl, !.alias = h.alias]

Respond(h, response) == [h EXCEPT !.pc = "responded", !.response = response]

\* lines 9-39 and 65-69: the body ({} when it does not parse), the url check, the API
\* key of the deployment, and the request to the provider up to its await
AfterRequestJson(h, hasApiKey) ==
  LET longUrl == IF h.body.parses THEN h.body.url ELSE Undefined
      alias == IF h.body.parses THEN h.body.alias ELSE Undefined
  IN IF ~Truthy(longUrl) \/ longUrl.kind # "string"
       THEN Respond(h, ErrorResponse(400))
       ELSE [h EXCEPT !.longUrl = longUrl, !.alias = alias,
                      !.endpoint = IF hasApiKey THEN "v2" ELSE "simple",
                      !.fetches = @ + 1, !.pc = "fetch"]

\* lines 89-95: the catch of the handler
Caught(h) == Respond([h EXCEPT !.answer.threw = TRUE], ErrorResponse(500))

\* lines 27-41 and 69-77: fetch resolved with a response res
AfterFetch(h, ok) ==
  IF h.endpoint = "v2"
    THEN [h EXCEPT !.answer.ok = ok, !.pc = "resJson"]
    ELSE IF ~ok THEN Respond([h EXCEPT !.answer.ok = ok], ErrorResponse(502))
                ELSE [h EXCEPT !.answer.ok = ok, !.pc = "resText"]

\* lines 41-61: the body of the v2 response ({} when it does not parse); tiny_url is
\* data.data?.tiny_url || data.tiny_url || data.shortUrl
AfterResJson(h, tiny_url) ==
  LET answered == [h EXCEPT !.answer.shortUrl = tiny_url]
  IN IF ~h.answer.ok THEN Respond(answered, ErrorResponse(502))
     ELSE IF ~Truthy(tiny_url) THEN Respond(answered, ErrorResponse(502))
     ELSE Respond(answered, ShortenedResponse(h, trim(tiny_url.text)))

\* lines 77-88: the text of the simple endpoint's response
AfterResText(h, text, isShortUrl) ==
  LET shortUrlText == trim(text)
      answered == [h EXCEPT !.answer.shortUrl = IF isShortUrl THEN Str(shortUrlText) ELSE Undefined]
  IN IF shortUrlText = <<>> \/ Includes(toLowerCase(shortUrlText), <<"e", "r", "r", "o", "r">>)
       THEN Respond(answered, ErrorResponse(502))
       ELSE Respond(answered, ShortenedResponse(h, shortUrlText))

\* lines 7-9: a request arrives; the handler up to await request.json()
POST(body) ==
  /\ handler.pc \in {"idle", "responded"}
  /\ handler' = [NoHandler EXCEPT !.pc = "json", !.body = body]
  /\ UNCHANGED <<isProcessing, abortController, aborted, userDirectoryHandle, processingQueue,
                 inv, isLoaded, listeners, lastCall, cancels, fsSupported, engineVars, driveVars,
                 validation, selectedFile, uploaderErrorMessage,
                 pageIsProcessing>>

\* request.json() settled
RequestJsonSettled ==
  /\ handler.pc = "json"
  /\ \E hasApiKey \in BOOLEAN : handler' = AfterRequestJson(handler, hasApiKey)
  /\ UNCHANGED <<isProcessing, abortController, aborted, userDirectoryHandle, processingQueue,
                 inv, isLoaded, listeners, lastCall, cancels, fsSupported, engineVars, driveVars,
                 validation, selectedFile, uploaderErrorMessage,
                 pageIsProcessing>>

\* the fetch of the provider settled: rejected, or resolved with an ok or an error status
FetchSettled ==
  /\ handler.pc = "fetch"
  /\ \/ handler' = Caught(handler)
     \/ \E ok \in BOOLEAN : handler' = AfterFetch(handler, ok)
  /\ UNCHANGED <<isProcessing, abortController, aborted, userDirectoryHandle, processingQueue,
                 inv, isLoaded, listeners, lastCall, cancels, fsSupported, engineVars, driveVars,
                 validation, selectedFile, uploaderErrorMessage,
                 pageIsProcessing>>

\* res.json() of the v2 response settled: a body with the short URL (with spaces around
\* it or not), or a body without one, or no JSON at all
ResJsonSettled ==
  /\ handler.pc = "resJson"
  /\ \E tiny_url \in {Undefined, Str(IssuedShortUrl(handler.alias)),
                      Str(<<" ">> \o IssuedShortUrl(handler.alias) \o <<" ">>)} :
       handler' = AfterResJson(handler, tiny_url)
  /\ UNCHANGED <<isProcessing, abortController, aborted, userDirectoryHandle, processingQueue,
                 inv, isLoaded, listeners, lastCall, cancels, fsSupported, engineVars, driveVars,
                 validation, selectedFile, uploaderErrorMessage,
                 pageIsProcessing>>

\* res.text() of the simple endpoint's response settled: rejected, or the short URL
\* followed by a space, or the text Error, or nothing
ResTextSettled ==
  /\ handler.pc = "resText"
  /\ \/ handler' = Caught(handler)
     \/ handler' = AfterResText(handler, IssuedShortUrl(handler.alias) \o <<" ">>, TRUE)
     \/ handler' = AfterResText(handler, <<"E", "r", "r", "o", "r">>, FALSE)
     \/ handler' = AfterResText(handler, <<>>, FALSE)
  /\ UNCHANGED <<isProcessing, abortController, aborted, userDirectoryHandle, processingQueue,
                 inv, isLoaded, listeners, lastCall, cancels, fsSupported, engineVars, driveVars,
                 validation, selectedFile, uploaderErrorMessage,
                 pageIsProcessing>>

NextShorten ==
  \/ \E body \in RequestBodies : POST(body)
  \/ RequestJsonSettled
  \/ FetchSettled
  \/ ResJsonSettled
  \/ ResTextSettled

\* the shortening endpoint under any sequence of requests
SpecShorten == Init /\ [][NextShorten]_vars

(***************************************************************************)
(* Claims                                                                  *)
(***************************************************************************)
Task(k) == processingQueue[k]

\* C1: a processVideo call made while another invocation is in flight is answered
\* with 'Another video is currently being processed' and changes neither the
\* queue nor any invocation.
C1_SecondCallRejected ==
  [][(Running # {} /\ \E options \in ProcessingOptions : processVideo(SampleFile, options))
       => (lastCall' = "AlreadyProcessing" /\ UNCHANGED <<processingQueue, inv>>)]_vars

\* C2: at most one invocation of processVideo is accepted and not yet settled.
C2_AtMostOneActive == Cardinality(Running) <= 1

\* C3: while a task has not reached its terminal status, every write to its
\* record leaves its progress equal or greater.
C3_ProgressMonotone ==
  [][\A k \in Running : processingQueue'[k].progress >= processingQueue[k].progress]_vars

\* C4: the progress of every task record is within [0, 100].
C4_ProgressInRange ==
  \A i \in DOMAIN processingQueue :
    processingQueue[i].progress >= Pct(0) /\ processingQueue[i].progress <= Pct(100)

\* C4 witness: the encoder reported more than 100 percent while a task was encoding,
\* and the task's progress is the top of the compression range
C4_Witness ==
  \E k \in DOMAIN inv : inv[k].pc = "encode" /\ Task(k).progress = Pct(70)

\* C5: the status of a record only moves pending -> processing -> completed | error,
\* and never leaves completed or error.
C5_StatusMachine ==
  [][\A i \in DOMAIN processingQueue :
       \/ processingQueue'[i].status = processingQueue[i].status
       \/ processingQueue[i].status = "pending" /\ processingQueue'[i].status = "processing"
       \/ processingQueue[i].status = "processing"
            /\ processingQueue'[i].status \in {"completed", "error"}]_vars

\* C6: once the compression stage of an invocation has failed, the invocation only
\* runs the engine's cleanup and then settles rejected with its record in status
\* 'error' with an error message; staging, upload and shortening are never started.
C6_CompressionFailureAborts ==
  [][\A k \in Running :
       (inv'[k] # inv[k] /\ inv'[k].compressError # NoError) =>
          /\ ~inv[k].staged /\ inv[k].uploads = 0 /\ inv[k].shortenings = 0
          /\ ~inv'[k].staged /\ inv'[k].uploads = 0 /\ inv'[k].shortenings = 0
          /\ IF inv[k].compressError = NoError
               THEN inv'[k].pc \in {"cleanup", "done"}
               ELSE inv'[k].pc = "done"
          /\ inv'[k].pc = "done" =>
               /\ inv'[k].result = "rejected"
               /\ processingQueue'[k].status = "error"
               /\ processingQueue'[k].error # NoError]_vars

\* C6 witness: an invocation whose compression failed has settled
C6_Witness ==
  \E k \in DOMAIN inv :
    inv[k].result = "rejected" /\ inv[k].compressError # NoError /\ Task(k).status = "error"

\* C7: an invocation whose upload stage or shortening stage failed settles resolved
\* with its record 'completed': without share link when the upload failed, with the
\* view link of the Drive file when the upload succeeded and the shortening failed.
C7_UploadShortenFailuresDegrade ==
  [][\A k \in Running :
       (inv'[k].result # "pending" /\ (inv'[k].uploadFailed \/ inv'[k].shortened = "threw")) =>
          /\ inv'[k].result = "resolved"
          /\ processingQueue'[k].status = "completed"
          /\ inv'[k].uploadFailed => processingQueue'[k].shareUrl = NoUrl
          /\ (inv'[k].driveFile /\ inv'[k].shortened = "threw")
               => processingQueue'[k].shareUrl = "webViewLink"]_vars

\* C7 witness: one task completed after its upload failed, another after its
\* shortening failed
C7_Witness ==
  \E j, k \in DOMAIN inv :
    /\ inv[j].result = "resolved" /\ inv[j].uploadFailed /\ Task(j).shareUrl = NoUrl
    /\ inv[k].result = "resolved" /\ inv[k].shortened = "threw"
    /\ Task(k).shareUrl = "webViewLink"

\* C8: shortenUrl never throws (on failure it returns the long URL).
C8_ShortenNeverThrows ==
  \A k \in DOMAIN inv : inv[k].shortened # "threw"

C10_EncoderFallback ==
  \A k \in DOMAIN inv :
    LET preferred == inv[k].options.preferredFormat
        other == IF preferred = "webm" THEN "mp4" ELSE "webm"
        run == inv[k].encoders
    IN inv[k].pc \in {"encode", "readNormalized", "cleanup"} =>
         /\ run # <<>> => run \in {<<preferred>>, <<preferred, other>>}
         /\ inv[k].compressed = preferred => run = <<preferred>>
         /\ inv[k].compressed = other => run = <<preferred, other>>
         /\ (run # <<>> /\ (inv[k].pc = "readNormalized" \/ inv[k].compressed = "normalized"
                             \/ inv[k].compressError # NoError))
              => run = <<preferred, other>>

\* C10 witness: for each preferred format some compression ended after the fallback ran
C10_Witness ==
  \E k \in DOMAIN inv :
    /\ inv[k].pc = "cleanup"
    /\ inv[k].encoders = <<"mp4", "webm">>
    /\ inv[k].compressed = "webm"

\* C11: when both encoders of a compressVideo call have failed, the call does not
\* throw (it returns the normalized intermediate file).
C11_DegradedResultNeverThrows ==
  (/\ call.op = "compressVideo"
   /\ Len(call.encoders) = 2
   /\ call.resultFile \notin Formats
   /\ call.pc \in {"deleteInput", "deleteNormalized", "returned", "threw"})
    => call.error = NoError

\* C12: after compressVideo has returned or thrown, the virtual filesystem holds
\* none of input.src, input.fixed.mp4, output.webm, output.mp4.
C12_VfsReleased ==
  (call.op = "compressVideo" /\ call.pc \in {"returned", "threw"})
    => vfs \cap CompressionFiles = {}

\* C13: every value passed to onProgress is a number within [0, 100].
C13_OnProgressInRange ==
  \A value \in delivered : value \in 0..100

\* C13 witness: the encoder has emitted values below 0 or not finite, within range,
\* and above 100, and onProgress received 0, 40 and 100 for them
C13_Witness ==
  delivered = {0, 40, 100}

\* C14: once a load of the runtime has succeeded, this.ffmpeg.load() is not
\* invoked again, whatever calls follow.
C14_LoadIdempotent ==
  ~reloaded

\* C15: cancelProcessing clears the in-flight flag, and a processVideo call made
\* while the flag is clear, as right after a cancel, is accepted: it adds a task.
C15_CancelAllowsNewTask ==
  [][/\ cancelProcessing => ~isProcessing'
     /\ (~isProcessing /\ \E options \in ProcessingOptions : processVideo(SampleFile, options))
          => (lastCall' = "accepted" /\ Len(processingQueue') = Len(processingQueue) + 1)]_vars

\* C15 witness: task 1 was cancelled and is still in its upload when the next
\* processVideo call has just been accepted
C15_Witness ==
  /\ cancels = 1 /\ 1 \in aborted /\ ~(2 \in aborted)
  /\ Len(inv) = 2 /\ inv[1].pc = "upload"
  /\ inv[2].pc \in {"preAuth", "load"} /\ lastCall = "accepted"

\* C17: when cancelProcessing has run for a task that is in its upload stage, the
\* record of that task no longer has status 'processing'.
C17_CancelledTaskNotProcessing ==
  [][cancelProcessing =>
       \A k \in abortController :
         inv[k].pc \in {"readBack", "uploadAuth", "upload"}
           => processingQueue'[k].status # "processing"]_vars

\* C16: once the cancellation token of the task has been aborted, the upload of
\* that task issues no further HTTP request.
C16_AbortStopsUpload ==
  [][(/\ upload.caller = "processVideo" /\ upload'.caller = "processVideo"
      /\ abortController # {} /\ abortController \subseteq aborted)
       => upload'.sent = upload.sent]_vars

\* C18: after a 308 response the next chunk request starts one byte after the end
\* of the Range header, or at the end of the chunk just sent when the response
\* has no Range header.
C18_NextChunkOffset ==
  (upload.pc = "chunk" /\ upload.response.status = 308) =>
     /\ upload.request.kind = "PUT"
     /\ upload.request.from = IF upload.response.hasRange
                                THEN upload.response.rangeEnd + 1
                                ELSE upload.response.chunkEnd

\* C18 witness: the server had stored bytes 0..10 of a chunk that ended at byte 11,
\* and the next chunk request starts at byte 11
C18_Witness ==
  /\ upload.pc = "chunk" /\ upload.response.status = 308
  /\ upload.response.hasRange /\ upload.response.rangeEnd = 10 /\ upload.response.chunkEnd = 12
  /\ upload.request = [kind |-> "PUT", from |-> 11]

\* C19: a file uploaded through processVideo goes in one multipart request when it
\* is smaller than the threshold and by the resumable protocol when it is larger.
C19_ThresholdSelectsProtocol ==
  upload.caller = "processVideo" =>
     /\ upload.size < ResumableThreshold => upload.request.kind \notin {"POST resumable", "PUT"}
     /\ upload.size > ResumableThreshold => upload.request.kind # "POST multipart"

C21_StageSubRanges ==
  [][/\ \A k \in DOMAIN inv' :
          inv'[k].pc \in {"load", "writeInput", "normalize", "encode", "readNormalized", "cleanup"} =>
            \E p \in 0..100 : processingQueue'[k].progress = Pct(5) + 65 * p
     /\ \A i \in DOMAIN processingQueue :
          (processingQueue'[i].progress # processingQueue[i].progress /\ inv'[i] = inv[i]) =>
            \E p \in 0..100 : processingQueue'[i].progress = Pct(5) + 65 * p
     /\ \A k \in Running :
          (processingQueue'[k].progress # processingQueue[k].progress /\ inv'[k] # inv[k]) =>
            /\ inv'[k].pc \in {"readBack", "uploadAuth", "upload"} =>
                 (processingQueue'[k].progress >= Pct(70) /\ processingQueue'[k].progress <= Pct(90))
            /\ inv'[k].pc \in {"shortenProxy", "shortenDirect"} =>
                 (processingQueue'[k].progress >= Pct(90) /\ processingQueue'[k].progress <= Pct(100))]_vars

\* C21 witness: a task is encoding and the encoder reported 40 percent (5 + 0.65 * 40
\* is 31), another task has gone through its upload and is in the shortening stage at 90
C21_Witness ==
  \E j, k \in DOMAIN inv :
    /\ inv[k].pc = "encode" /\ Task(k).progress = Pct(31)
    /\ inv[j].pc \in {"shortenProxy", "shortenDirect"} /\ Task(j).progress = Pct(90)

\* C22: validateFile returns isValid = true with no error exactly when the size is
\* within 50 MiB, the lower-cased extension is in the supported list and the MIME
\* type is in the supported list; otherwise isValid = false with one error for each
\* violated rule, so at least one.
C22_ValidateFile ==
  LET file == validation.file
      sizeWithinLimit == file.size <= 50 * 1024 * 1024
      extensionSupported == toLowerCase(SplitPop(file.name, ".")) \in supportedFormats
      mimeTypeSupported == file.type \in supportedMimeTypes
      violatedRules ==
        {rule \in {"size", "format", "mime"} :
           \/ rule = "size" /\ ~sizeWithinLimit
           \/ rule = "format" /\ ~extensionSupported
           \/ rule = "mime" /\ ~mimeTypeSupported}
  IN validation.called =>
       /\ (validation.isValid /\ validation.errors = <<>>)
            <=> (sizeWithinLimit /\ extensionSupported /\ mimeTypeSupported)
       /\ ~validation.isValid =>
            /\ Len(validation.errors) >= 1
            /\ Len(validation.errors) = Cardinality(violatedRules)
            /\ {validation.errors[i].rule : i \in DOMAIN validation.errors} = violatedRules
       /\ validation.isValid \/ validation.errors # <<>>

\* C22 witness: a file of exactly 50 MiB with an upper-case extension was found valid
C22_Witness ==
  /\ validation.called /\ validation.isValid
  /\ validation.file.size = 50 * 1024 * 1024
  /\ validation.file.name = <<"C", "L", "I", "P", ".", "M", "P", "4">>

\* C23: no file that fails the validation policy (size limit, extension rule, MIME
\* rule) is compressed: a task whose file validateFile refuses never reaches the
\* compression stage.
C23_NoInvalidFileCompressed ==
  \A k \in DOMAIN inv :
    inv[k].pc \in {"load", "writeInput", "normalize", "encode", "readNormalized", "cleanup"} => validateFile(Task(k).file).isValid

C25_ShortenEndpoint ==
  LET body == handler.body
      hasUrl == body.parses /\ body.url.kind = "string" /\ body.url.text # <<>>
  IN /\ ~handler.threw
     /\ handler.pc = "responded" =>
          /\ handler.response.contentType = "application/json"
          /\ handler.response.status = 400 <=> ~hasUrl
          /\ handler.response.status = 400 => handler.fetches = 0
          /\ hasUrl =>
               handler.response.status =
                 IF handler.answer.threw THEN 500
                 ELSE IF ~handler.answer.ok \/ handler.answer.shortUrl = Undefined THEN 502
                 ELSE 200
          /\ handler.response.status = 200 =>
               /\ Truthy(handler.response.shortUrl)
               /\ handler.response.longUrl = body.url
          /\ handler.response.status # 200 => handler.response.error

\* C26: when every external call settles, every accepted invocation of processVideo
\* eventually settles and its record reaches the status completed or error,
\* whatever 308 responses the server gives to the chunk requests.
C26_EveryTaskSettles ==
  <>(\A k \in DOMAIN inv :
       inv[k].result # "pending" /\ Task(k).status \in {"completed", "error"})

\* C27: a progress event of the encoder changes only the record of the task that is
\* compressing: the record of every task of an earlier, settled processVideo run
\* keeps its status and its progress.
C27_ProgressScopedToCall ==
  [][(\E value \in RawProgress : ProgressEvent(value)) =>
       \A i \in DOMAIN processingQueue :
         inv[i].result # "pending" =>
           /\ processingQueue'[i].status = processingQueue[i].status
           /\ processingQueue'[i].progress = processingQueue[i].progress]_vars

\* C28: whenever an invocation of processVideo is in flight, a call of
\* cancelProcessing aborts the AbortController created for it: unless that
\* controller is aborted already, the in-flight flag is set (so that the call does
\* not return at its first line) and this.abortController is that controller.
C28_CancelReachesController ==
  \A k \in Running :
    k \notin aborted => (isProcessing /\ abortController = {k})

\* C29: when an invocation of processVideo settles, resolved or rejected, and no
\* other invocation is in flight, the in-flight flag is false and the abort
\* controller is null; and a processVideo call made when no invocation is in flight
\* is accepted.
C29_SettledTaskNeverBlocks ==
  [][/\ (Running # {} /\ Running' = {}) => (~isProcessing' /\ abortController' = {})
     /\ (Running = {} /\ \E options \in ProcessingOptions : processVideo(SampleFile, options))
          => (lastCall' = "accepted" /\ Len(processingQueue') = Len(processingQueue) + 1)]_vars

\* C29 witness: the first task failed and was never cancelled, and the next
\* processVideo call has been accepted
C29_Witness ==
  /\ cancels = 0 /\ Len(inv) = 2
  /\ inv[1].result = "rejected" /\ Task(1).status = "error"
  /\ inv[2].result = "pending" /\ lastCall = "accepted"

\* C30: the staged copy of a task is deleted only after the upload of that task
\* succeeded: never when the upload failed or was disabled; and a failure of the
\* staging step (directory pick or write) does not fail the task: the invocation
\* goes on without a staged copy, uploading the in-memory file when upload is on.
C30_StagedCopy ==
  [][\A k \in Running :
       /\ inv'[k].pc = "deleteSaved" =>
            /\ inv'[k].saved /\ inv'[k].driveFile
            /\ ~inv'[k].uploadFailed /\ inv[k].options.enableGoogleDrive
       /\ (inv[k].pc \in {"pickDirectory", "save"} /\ inv'[k] # inv[k]
             /\ inv'[k].pc # "save" /\ ~inv'[k].saved) =>
            /\ inv'[k].result # "rejected"
            /\ processingQueue'[k].status # "error"
            /\ inv'[k].pc \notin {"readBack", "deleteSaved"}
            /\ inv[k].options.enableGoogleDrive => inv'[k].pc = "uploadAuth"
            /\ ~inv[k].options.enableGoogleDrive => inv'[k].result = "resolved"]_vars

\* C30 witness: one task is deleting its staged copy after its upload succeeded,
\* while another, whose staging failed, is going on to upload the in-memory file
C30_Witness ==
  \E j, k \in DOMAIN inv :
    /\ inv[j].pc = "deleteSaved" /\ inv[j].saved /\ inv[j].driveFile
    /\ inv[k].pc = "uploadAuth" /\ inv[k].staged /\ ~inv[k].saved

====
